---- MODULE Spec2Model ----
(***************************************************************************)
(* Model of the caching and history layer of the ArxivExplorer server      *)
(* (src/server.py): the DynamoDB tables `papers` and `searches`, the       *)
(* helpers save_paper / get_paper / save_search and the four tools         *)
(* search_arxiv, summarize_paper, get_search_history, get_saved_papers.    *)
(* Tool calls arrive from concurrent clients; every call to the store or   *)
(* to the Tavily provider is one atomic step of the calling client.        *)
(***************************************************************************)
EXTENDS Integers, Sequences, FiniteSets, TLC

\* ---------------------------------------------------------------- bounds
MaxOps      == 3   \* tool calls started in one behaviour
MaxClock    == 2   \* last clock reading (in clock ticks)
TicksPerSec == 2   \* clock ticks per second (strftime resolution vs isoformat)
MaxResults  == 2   \* largest max_results a caller passes to search_arxiv
MaxLimit    == 2   \* largest limit a caller passes to a listing tool
ConcurrentOps == 1 \* tool calls of each of two concurrent clients

Clients   == {"c1", "c2"}
Urls      == {"u1", "u2"}
Queries   == {"q1", "q2"}
\* Titles as the provider returns them: sequences of characters.
RawTitles == {<<" ", "A", " ">>}
\* Answers of tavily.qna_search (the empty string included).
Summaries == {"", "s1", "s2"}

\* Python's None, the default of save_paper's summary argument.
None == "<None>"
\* The title summarize_paper gives a record it creates itself.
UnknownTitle == <<"Unknown Title">>
\* An attribute an item does not carry.
NoAttr == <<"<no attribute>">>

VARIABLES
  clock,      \* the wall clock datetime.now() reads
  papers,     \* table `papers`  : url -> item
  searches,   \* table `searches`: search_id -> item
  budget,     \* per client: the tool calls it may still start
  call,       \* per client: the tool call it runs and the call's locals
  reply,      \* the tool call that ended last: its arguments and its outcome
  lastPut,    \* history: url -> clock of the last put_item of that paper
  lastWrite,  \* history: url -> the last write of any kind to that paper
  lastSum     \* history: url -> {s} when the last write to url was a summarize
              \*          that stored the provider's non-empty answer s

vars == <<clock, papers, searches, budget, call, reply, lastPut, lastWrite, lastSum>>

\* ------------------------------------------------------- pure functions

\* str.strip(): drop leading and trailing whitespace.
RECURSIVE lstrip(_)
lstrip(s) == IF s # <<>> /\ Head(s) = " " THEN lstrip(Tail(s)) ELSE s

RECURSIVE rstrip(_)
rstrip(s) ==
  IF s # <<>> /\ s[Len(s)] = " " THEN rstrip(SubSeq(s, 1, Len(s) - 1)) ELSE s

strip(s) == rstrip(lstrip(s))

\* datetime.isoformat(): seconds, and the fraction only when it is not zero.
isoformat(t) ==
  IF t % TicksPerSec = 0 THEN <<t \div TicksPerSec>>
                         ELSE <<t \div TicksPerSec, t % TicksPerSec>>

\* datetime.strftime('%Y%m%d_%H%M%S'): whole seconds.
strftime(t) == t \div TicksPerSec

\* Order of two isoformat strings as Python compares strings.
StrLess(a, b) ==
  \/ a[1] < b[1]
  \/ a[1] = b[1] /\ Len(a) < Len(b)
  \/ a[1] = b[1] /\ Len(a) = 2 /\ Len(b) = 2 /\ a[2] < b[2]

\* bool(x) of an optional string: None and "" are falsy.
Truthy(s) == s # None /\ s # ""

\* ---------------------------------------------------------------- store

\* A save_paper that merges: a summary that is not given leaves the stored one.
save_paper_merge(P, title, url, summary, now) ==
  [x \in DOMAIN P \cup {url} |->
     IF x = url
     THEN [url |-> url, title |-> title,
           summary |-> IF summary = None /\ url \in DOMAIN P
                       THEN P[url].summary ELSE summary,
           timestamp |-> isoformat(now)]
     ELSE P[x]]

\* A conditional put, 'attribute_not_exists(url)': a stored item is left alone.
save_paper_if_new(P, title, url, summary, now) ==
  IF url \in DOMAIN P THEN P
  ELSE [x \in DOMAIN P \cup {url} |->
          IF x = url
          THEN [url |-> url, title |-> title, summary |-> summary,
                timestamp |-> isoformat(now)]
          ELSE P[x]]

\* save_paper: papers_table.put_item replaces the whole item under url.
save_paper(P, title, url, summary, now) ==
  [x \in DOMAIN P \cup {url} |->
     IF x = url
     THEN [url |-> url, title |-> title, summary |-> summary,
           timestamp |-> isoformat(now)]
     ELSE P[x]]

\* A read that answers with whatever items are stored when the key is missing.
get_paper_any(P, url) ==
  IF url \in DOMAIN P THEN {P[url]} ELSE {P[x] : x \in DOMAIN P}

\* papers_table.get_item + response.get('Item'): the item or nothing.
get_paper(P, url) == IF url \in DOMAIN P THEN {P[url]} ELSE {}

\* An update_item that also stamps the item: 'SET summary = :s, timestamp = :now'.
update_item_touch(P, url, summary) ==
  [x \in DOMAIN P \cup {url} |->
     IF x = url
     THEN [url |-> url,
           title |-> IF url \in DOMAIN P THEN P[url].title ELSE NoAttr,
           summary |-> summary, timestamp |-> isoformat(clock)]
     ELSE P[x]]

\* An update_item that writes only where no summary is stored yet:
\* 'SET summary = if_not_exists(summary, :summary)' over a non-empty summary.
update_item_if_absent(P, url, summary) ==
  IF url \in DOMAIN P
  THEN IF Truthy(P[url].summary) THEN P ELSE [P EXCEPT ![url].summary = summary]
  ELSE [x \in DOMAIN P \cup {url} |->
          IF x = url
          THEN [url |-> url, title |-> NoAttr, summary |-> summary,
                timestamp |-> NoAttr]
          ELSE P[x]]

\* papers_table.update_item with 'SET summary = :summary'.
update_item(P, url, summary) ==
  IF url \in DOMAIN P
  THEN [P EXCEPT ![url].summary = summary]
  ELSE [x \in DOMAIN P \cup {url} |->
          IF x = url
          THEN [url |-> url, title |-> NoAttr, summary |-> summary,
                timestamp |-> NoAttr]
          ELSE P[x]]

\* The key save_search builds from the query and the second it runs in.
search_id(query, now) == <<query, strftime(now)>>

\* searches_table.put_item in save_search; `now2` is the second clock reading.
save_search(S, query, results, now, now2) ==
  [x \in DOMAIN S \cup {search_id(query, now)} |->
     IF x = search_id(query, now)
     THEN [search_id |-> search_id(query, now), query |-> query,
           results |-> results, timestamp |-> isoformat(now2)]
     ELSE S[x]]

\* Sequences without repetition over a set, of exactly n elements.
RECURSIVE Arrangements(_, _)
Arrangements(S, n) ==
  IF n = 0 THEN {<<>>}
  ELSE UNION {{<<x>> \o r : r \in Arrangements(S \ {x}, n - 1)} : x \in S}

Min(a, b) == IF a < b THEN a ELSE b

\* A scan without Limit: every item of the table.
scan_all(T, limit) ==
  Arrangements({T[k] : k \in DOMAIN T}, Cardinality(DOMAIN T))

\* table.scan(Limit=limit): a page of limit items (all of them if fewer), which
\* items and in which order being the store's choice.
scan(T, limit) ==
  Arrangements({T[k] : k \in DOMAIN T}, Min(limit, Cardinality(DOMAIN T)))

\* A sort that leaves the page in the order the scan gave it.
InsertLast(x, s) == Append(s, x)

\* sorted(items, key=timestamp, reverse=True): stable, newest first.
Insert(x, s) ==
  LET k == Cardinality({i \in 1..Len(s) :
                          \A j \in 1..i : ~StrLess(s[j].timestamp, x.timestamp)})
  IN SubSeq(s, 1, k) \o <<x>> \o SubSeq(s, k + 1, Len(s))

RECURSIVE sorted(_)
sorted(items) ==
  IF items = <<>> THEN <<>>
  ELSE LET n == Len(items)
       IN Insert(items[n], sorted(SubSeq(items, 1, n - 1)))

\* ------------------------------------------------------------- provider

\* Sequences over a set, of at most n elements.
RECURSIVE SeqsUpTo(_, _)
SeqsUpTo(S, n) ==
  IF n = 0 THEN {<<>>}
  ELSE LET shorter == SeqsUpTo(S, n - 1)
       IN shorter \cup {Append(r, x) : r \in shorter, x \in S}

\* What tavily.search may answer for max_results = n: resp["results"].
ProviderResults(n) ==
  SeqsUpTo([title : RawTitles, url : Urls], n)

\* ----------------------------------------------------------- tool calls

\* A client between two tool calls; also the locals of a call at its start.
NewCall ==
  [pc |-> "idle", tool |-> "none", query |-> "", paper_url |-> "", limit |-> 0,
   resp |-> <<>>, i |-> 0, results |-> <<>>,
   cached_paper |-> {}, summary |-> None,
   qna |-> 0, read_failed |-> FALSE, paper_failed |-> FALSE, race |-> "none",
   prior |-> {}, start |-> "none", after_erase |-> FALSE]

\* What is known of a call once it has ended.
NoReply ==
  [client |-> "none", tool |-> "none", outcome |-> "none", ret |-> <<>>,
   query |-> "", paper_url |-> "", limit |-> 0, resp |-> <<>>, summary |-> None,
   qna |-> 0, read_failed |-> FALSE, paper_failed |-> FALSE, race |-> "none",
   prior |-> {}, start |-> "none", after_erase |-> FALSE,
   wrote_search |-> FALSE, scan_failed |-> FALSE, after_search |-> {},
   page |-> <<>>]

Ended(c, rec, outcome, value) ==
  [NoReply EXCEPT !.client = c, !.tool = rec.tool, !.outcome = outcome,
                  !.ret = value, !.query = rec.query,
                  !.paper_url = rec.paper_url, !.limit = rec.limit,
                  !.summary = rec.summary, !.qna = rec.qna,
                  !.read_failed = rec.read_failed,
                  !.paper_failed = rec.paper_failed, !.race = rec.race,
                  !.prior = rec.prior, !.start = rec.start,
                  !.after_erase = rec.after_erase]

\* The call returns `value` to its caller.
Return(c, rec, value) == Ended(c, rec, "ok", value)

\* The call ends with the exception it did not catch.
Raise(c, rec) == Ended(c, rec, "error", <<>>)

\* The state the tools share, as the server starts: both tables empty.
Fresh ==
  /\ clock = 0
  /\ papers = <<>>
  /\ searches = <<>>
  /\ reply = NoReply
  /\ lastPut = [u \in Urls |-> -1]
  /\ lastWrite = [u \in Urls |-> [at |-> -1, value |-> None, erased |-> FALSE]]
  /\ lastSum = [u \in Urls |-> {}]

\* One client calls the tools one after the other.
Init ==
  /\ Fresh
  /\ budget = [c \in {"c1"} |-> MaxOps]
  /\ call = [c \in DOMAIN budget |-> NewCall]

\* The papers table as earlier runs of the server left it: empty, or holding
\* u1 as a search saved it, without a summary or with one attached since.
Stored ==
  {<<>>} \cup
  {save_paper(<<>>, strip(t), "u1", None, 0) : t \in RawTitles} \cup
  {update_item(save_paper(<<>>, strip(t), "u1", None, 0), "u1", s) :
     t \in RawTitles, s \in Summaries \ {""}}

\* Two clients call the tools at the same time, over a table earlier runs
\* have filled.
InitConcurrent ==
  /\ clock = 0
  /\ papers \in Stored
  /\ searches = <<>>
  /\ reply = NoReply
  /\ lastPut = [u \in Urls |-> IF u \in DOMAIN papers THEN 0 ELSE -1]
  /\ lastWrite = [u \in Urls |->
                    IF u \in DOMAIN papers
                    THEN [at |-> 0, value |-> papers[u].summary, erased |-> FALSE]
                    ELSE [at |-> -1, value |-> None, erased |-> FALSE]]
  /\ lastSum = [u \in Urls |->
                  IF u \in DOMAIN papers /\ Truthy(papers[u].summary)
                  THEN {papers[u].summary} ELSE {}]
  /\ budget = [c \in Clients |-> ConcurrentOps]
  /\ call = [c \in DOMAIN budget |-> NewCall]

CanStart(c) == call[c].pc = "idle" /\ budget[c] > 0

\* The history of a write of `summary` to the paper under u.
Written(u, summary) ==
  [lastWrite EXCEPT ![u] =
     [at |-> clock, value |-> summary,
      erased |-> /\ u \in DOMAIN papers
                 /\ Truthy(papers[u].summary)
                 /\ ~Truthy(summary)]]

\* The clock moves on between two steps.
Tick ==
  /\ clock < MaxClock
  /\ clock' = clock + 1
  /\ UNCHANGED <<papers, searches, budget, call, reply, lastPut, lastWrite, lastSum>>

\* ---- search_arxiv

\* tavily.search answers.
SearchCall(c) ==
  /\ CanStart(c)
  /\ \E q \in Queries, n \in 1..MaxResults :
       \E resp \in ProviderResults(n) :
         LET me == [NewCall EXCEPT !.tool = "search_arxiv", !.query = q,
                                   !.resp = resp, !.i = 1]
         IN call' = [call EXCEPT ![c] =
                       [me EXCEPT !.pc = IF resp = <<>> THEN "save_search"
                                                        ELSE "save_paper"]]
  /\ budget' = [budget EXCEPT ![c] = @ - 1]
  /\ UNCHANGED <<clock, papers, searches, reply, lastPut, lastWrite, lastSum>>

\* tavily.search raises: search_arxiv ends before any write.
SearchCallFails(c) ==
  /\ CanStart(c)
  /\ \E q \in Queries :
       reply' = Raise(c, [NewCall EXCEPT !.tool = "search_arxiv", !.query = q])
  /\ budget' = [budget EXCEPT ![c] = @ - 1]
  /\ UNCHANGED <<clock, papers, searches, call, lastPut, lastWrite, lastSum>>

\* The {title, url} pair the loop builds from one provider result.
paper_data(r) == [title |-> strip(r.title), url |-> r.url]

\* One turn of the loop: append the pair, save_paper(title, url).
SearchSavePaper(c) ==
  LET me == call[c]
      pd == paper_data(me.resp[me.i])
  IN /\ me.pc = "save_paper"
     /\ papers' = save_paper(papers, pd.title, pd.url, None, clock)
     /\ call' = [call EXCEPT ![c] =
                   [me EXCEPT !.results = Append(me.results, pd),
                              !.i = me.i + 1,
                              !.pc = IF me.i = Len(me.resp) THEN "save_search"
                                                             ELSE "save_paper"]]
     /\ lastPut' = [lastPut EXCEPT ![pd.url] = clock]
     /\ lastWrite' = Written(pd.url, None)
     /\ lastSum' = [lastSum EXCEPT ![pd.url] = {}]
     /\ UNCHANGED <<clock, searches, budget, reply>>

\* A loop that catches the failure of one save_paper and goes on.
SearchSavePaperSwallows(c) ==
  LET me == call[c]
      pd == paper_data(me.resp[me.i])
  IN /\ me.pc = "save_paper"
     /\ call' = [call EXCEPT ![c] =
                   [me EXCEPT !.results = Append(me.results, pd),
                              !.i = me.i + 1, !.paper_failed = TRUE,
                              !.pc = IF me.i = Len(me.resp) THEN "save_search"
                                                             ELSE "save_paper"]]
     /\ UNCHANGED <<clock, papers, searches, budget, reply, lastPut, lastWrite, lastSum>>

\* One turn of the loop whose put_item raises: nothing catches it.
SearchSavePaperFails(c) ==
  LET me == call[c]
  IN /\ me.pc = "save_paper"
     /\ reply' = [Raise(c, [me EXCEPT !.paper_failed = TRUE])
                    EXCEPT !.resp = me.resp]
     /\ call' = [call EXCEPT ![c] = NewCall]
     /\ UNCHANGED <<clock, papers, searches, budget, lastPut, lastWrite, lastSum>>

\* save_search(query, results), then return results. The clock is read twice.
SearchSaveSearch(c) ==
  LET me == call[c]
  IN /\ me.pc = "save_search"
     /\ \E d \in 0..1 :
          /\ clock + d <= MaxClock
          /\ clock' = clock + d
          /\ searches' = save_search(searches, me.query, me.results, clock, clock + d)
     /\ reply' = [Return(c, me, me.results) EXCEPT !.wrote_search = TRUE]
     /\ call' = [call EXCEPT ![c] = NewCall]
     /\ UNCHANGED <<papers, budget, lastPut, lastWrite, lastSum>>

\* save_search whose put_item raises.
SearchSaveSearchFails(c) ==
  LET me == call[c]
  IN /\ me.pc = "save_search"
     /\ reply' = Raise(c, me)
     /\ call' = [call EXCEPT ![c] = NewCall]
     /\ UNCHANGED <<clock, papers, searches, budget, lastPut, lastWrite, lastSum>>

\* ---- summarize_paper

\* A test that reads a key the item does not carry: the cache never answers.
CacheHitNever(cached) == \E item \in cached : Truthy(None)

\* A hit test `is not None`: an empty stored summary counts as a summary.
CacheHitNotNone(cached) == \E item \in cached : item.summary # None

\* `if cached_paper and cached_paper.get('summary')`: the cache answers.
CacheHit(cached) == \E item \in cached : Truthy(item.summary)

\* History: the other calls for url u that have seen a miss and not yet
\* written their answer. A call's `race` tells whether another call for its url
\* missed while it was under way, and whether that call has written since.
Racing(c, u) ==
  {d \in DOMAIN call \ {c} : /\ call[d].pc \in {"qna", "attach"}
                             /\ call[d].paper_url = u}

\* History: what the table holds for url u as a summarize_paper call starts.
StartState(u) ==
  IF u \notin DOMAIN papers THEN "no record"
  ELSE IF papers[u].summary = None THEN "no summary"
  ELSE IF papers[u].summary = "" THEN "empty summary"
  ELSE "summary"

\* The locals of a summarize_paper(u) call as it starts, with its history.
Summarizing(u) ==
  [NewCall EXCEPT !.tool = "summarize_paper", !.paper_url = u,
                  !.prior = lastSum[u], !.start = StartState(u),
                  !.after_erase = lastWrite[u].erased /\ lastWrite[u].value = None]

\* Client c goes on to the provider with the locals `me`.
Missed(c, me) ==
  [d \in DOMAIN call |->
     IF d = c
     THEN [me EXCEPT !.pc = "qna",
                     !.race = IF Racing(c, me.paper_url) # {} THEN "both_missed"
                                                              ELSE "none"]
     ELSE IF d \in Racing(c, me.paper_url)
          THEN [call[d] EXCEPT !.race = "both_missed"]
          ELSE call[d]]

\* get_paper answers: return the cached summary, or go on to the provider.
SumGet(c) ==
  /\ CanStart(c)
  /\ \E u \in Urls :
       LET cached == get_paper(papers, u)
           me == Summarizing(u)
       IN IF CacheHit(cached)
          THEN /\ reply' = Return(c, me, <<(CHOOSE item \in cached : TRUE).summary>>)
               /\ UNCHANGED call
          ELSE /\ call' = Missed(c, [me EXCEPT !.cached_paper = cached])
               /\ UNCHANGED reply
  /\ budget' = [budget EXCEPT ![c] = @ - 1]
  /\ UNCHANGED <<clock, papers, searches, lastPut, lastWrite, lastSum>>

\* A get_paper without its except branch: the error of get_item goes out.
SumGetRaises(c) ==
  /\ CanStart(c)
  /\ \E u \in Urls :
       reply' = Raise(c, [Summarizing(u) EXCEPT !.read_failed = TRUE])
  /\ budget' = [budget EXCEPT ![c] = @ - 1]
  /\ UNCHANGED <<clock, papers, searches, call, lastPut, lastWrite, lastSum>>

\* get_item raises: get_paper swallows it and answers None.
SumGetFails(c) ==
  /\ CanStart(c)
  /\ \E u \in Urls :
       call' = Missed(c, [Summarizing(u) EXCEPT !.read_failed = TRUE])
  /\ budget' = [budget EXCEPT ![c] = @ - 1]
  /\ UNCHANGED <<clock, papers, searches, reply, lastPut, lastWrite, lastSum>>

\* tavily.qna_search answers.
SumQna(c) ==
  LET me == call[c]
  IN /\ me.pc = "qna"
     /\ \E s \in Summaries :
          call' = [call EXCEPT ![c] =
                     [me EXCEPT !.summary = s, !.qna = me.qna + 1, !.pc = "attach"]]
     /\ UNCHANGED <<clock, papers, searches, budget, reply, lastPut, lastWrite, lastSum>>

\* A summarize_paper that marks the paper with an empty summary when
\* tavily.qna_search raises, before it lets the error out.
SumQnaFailsMarks(c) ==
  LET me == call[c]
  IN /\ me.pc = "qna"
     /\ papers' = update_item(papers, me.paper_url, "")
     /\ reply' = Raise(c, [me EXCEPT !.qna = me.qna + 1])
     /\ call' = [call EXCEPT ![c] = NewCall]
     /\ UNCHANGED <<clock, searches, budget, lastPut, lastWrite, lastSum>>

\* tavily.qna_search raises.
SumQnaFails(c) ==
  LET me == call[c]
  IN /\ me.pc = "qna"
     /\ reply' = Raise(c, [me EXCEPT !.qna = me.qna + 1])
     /\ call' = [call EXCEPT ![c] = NewCall]
     /\ UNCHANGED <<clock, papers, searches, budget, lastPut, lastWrite, lastSum>>

\* `if cached_paper: update_item(...) else: save_paper("Unknown Title", ...)`,
\* then return the summary.
SumAttach(c) ==
  LET me == call[c]
      u == me.paper_url
  IN /\ me.pc = "attach"
     /\ IF me.cached_paper # {}
        THEN /\ papers' = update_item(papers, u, me.summary)
             /\ UNCHANGED lastPut
        ELSE /\ papers' = save_paper(papers, UnknownTitle, u, me.summary, clock)
             /\ lastPut' = [lastPut EXCEPT ![u] = clock]
     /\ reply' = Return(c, me, <<me.summary>>)
     /\ call' = [d \in DOMAIN call |->
                   IF d = c THEN NewCall
                   ELSE IF d \in Racing(c, u) /\ me.race # "none"
                        THEN [call[d] EXCEPT !.race = "other_wrote"]
                        ELSE call[d]]
     /\ lastWrite' = Written(u, me.summary)
     /\ lastSum' = [lastSum EXCEPT ![u] =
                      IF Truthy(me.summary) THEN {me.summary} ELSE {}]
     /\ UNCHANGED <<clock, searches, budget>>

\* The write of the summary raises.
SumAttachFails(c) ==
  LET me == call[c]
  IN /\ me.pc = "attach"
     /\ reply' = Raise(c, me)
     /\ call' = [call EXCEPT ![c] = NewCall]
     /\ UNCHANGED <<clock, papers, searches, budget, lastPut, lastWrite, lastSum>>

\* ---- get_search_history

\* History: the search_arxiv that returned just before this call, if any.
JustSearched ==
  IF reply.tool = "search_arxiv" /\ reply.outcome = "ok"
  THEN {[query |-> reply.query, results |-> reply.ret]}
  ELSE {}

\* A listing tool returns `value`.
Listed(c, tool, limit, failed, items, value) ==
  [Return(c, [NewCall EXCEPT !.tool = tool, !.limit = limit], value)
     EXCEPT !.scan_failed = failed, !.after_search = JustSearched,
            !.page = items]

\* The view get_search_history gives of the items of a page.
HistoryView(items) ==
  [k \in 1..Len(items) |->
     [search_id |-> items[k].search_id, query |-> items[k].query,
      timestamp |-> items[k].timestamp, result_count |-> Len(items[k].results)]]

\* scan, sort the page, project.
GetSearchHistory(c) ==
  /\ CanStart(c)
  /\ \E limit \in 1..MaxLimit :
       \E items \in scan(searches, limit) :
         reply' = Listed(c, "get_search_history", limit, FALSE, items,
                         HistoryView(sorted(items)))
  /\ budget' = [budget EXCEPT ![c] = @ - 1]
  /\ UNCHANGED <<clock, papers, searches, call, lastPut, lastWrite, lastSum>>

\* scan raises (the store fails, or Limit is below 1): the tool returns [].
GetSearchHistoryFails(c) ==
  /\ CanStart(c)
  /\ \E limit \in 0..MaxLimit :
       reply' = Listed(c, "get_search_history", limit, TRUE, <<>>, <<>>)
  /\ budget' = [budget EXCEPT ![c] = @ - 1]
  /\ UNCHANGED <<clock, papers, searches, call, lastPut, lastWrite, lastSum>>

\* ---- get_saved_papers

\* A view of the summarized papers only.
PapersViewSummarized(items) ==
  LET kept == SelectSeq(items, LAMBDA item : Truthy(item.summary))
  IN [k \in 1..Len(kept) |->
        [title |-> kept[k].title, url |-> kept[k].url,
         has_summary |-> Truthy(kept[k].summary),
         timestamp |-> kept[k].timestamp]]

\* A view whose has_summary is `summary is not None`.
PapersViewNotNone(items) ==
  [k \in 1..Len(items) |->
     [title |-> items[k].title, url |-> items[k].url,
      has_summary |-> items[k].summary # None,
      timestamp |-> items[k].timestamp]]

\* The view get_saved_papers gives of the items of a page.
PapersView(items) ==
  [k \in 1..Len(items) |->
     [title |-> items[k].title, url |-> items[k].url,
      has_summary |-> Truthy(items[k].summary),
      timestamp |-> items[k].timestamp]]

\* scan, project (no sort).
GetSavedPapers(c) ==
  /\ CanStart(c)
  /\ \E limit \in 1..MaxLimit :
       \E items \in scan(papers, limit) :
         reply' = Listed(c, "get_saved_papers", limit, FALSE, items,
                         PapersView(items))
  /\ budget' = [budget EXCEPT ![c] = @ - 1]
  /\ UNCHANGED <<clock, papers, searches, call, lastPut, lastWrite, lastSum>>

\* A get_saved_papers without its except branch: the error of scan goes out.
GetSavedPapersRaises(c) ==
  /\ CanStart(c)
  /\ \E limit \in 0..MaxLimit :
       reply' = [Raise(c, [NewCall EXCEPT !.tool = "get_saved_papers",
                                          !.limit = limit])
                   EXCEPT !.scan_failed = TRUE]
  /\ budget' = [budget EXCEPT ![c] = @ - 1]
  /\ UNCHANGED <<clock, papers, searches, call, lastPut, lastWrite, lastSum>>

\* scan raises (the store fails, or Limit is below 1): the tool returns [].
GetSavedPapersFails(c) ==
  /\ CanStart(c)
  /\ \E limit \in 0..MaxLimit :
       reply' = Listed(c, "get_saved_papers", limit, TRUE, <<>>, <<>>)
  /\ budget' = [budget EXCEPT ![c] = @ - 1]
  /\ UNCHANGED <<clock, papers, searches, call, lastPut, lastWrite, lastSum>>

\* ------------------------------------------------------- specification

Next ==
  \/ Tick
  \/ \E c \in DOMAIN call : SearchCall(c)
  \/ \E c \in DOMAIN call : SearchCallFails(c)
  \/ \E c \in DOMAIN call : SearchSavePaper(c)
  \/ \E c \in DOMAIN call : SearchSavePaperFails(c)
  \/ \E c \in DOMAIN call : SearchSaveSearch(c)
  \/ \E c \in DOMAIN call : SearchSaveSearchFails(c)
  \/ \E c \in DOMAIN call : SumGet(c)
  \/ \E c \in DOMAIN call : SumGetFails(c)
  \/ \E c \in DOMAIN call : SumQna(c)
  \/ \E c \in DOMAIN call : SumQnaFails(c)
  \/ \E c \in DOMAIN call : SumAttach(c)
  \/ \E c \in DOMAIN call : SumAttachFails(c)
  \/ \E c \in DOMAIN call : GetSearchHistory(c)
  \/ \E c \in DOMAIN call : GetSearchHistoryFails(c)
  \/ \E c \in DOMAIN call : GetSavedPapers(c)
  \/ \E c \in DOMAIN call : GetSavedPapersFails(c)

\* The tools that write the papers table.
NextConcurrent ==
  \/ Tick
  \/ \E c \in DOMAIN call : SearchCall(c)
  \/ \E c \in DOMAIN call : SearchCallFails(c)
  \/ \E c \in DOMAIN call : SearchSavePaper(c)
  \/ \E c \in DOMAIN call : SearchSavePaperFails(c)
  \/ \E c \in DOMAIN call : SearchSaveSearch(c)
  \/ \E c \in DOMAIN call : SearchSaveSearchFails(c)
  \/ \E c \in DOMAIN call : SumGet(c)
  \/ \E c \in DOMAIN call : SumGetFails(c)
  \/ \E c \in DOMAIN call : SumQna(c)
  \/ \E c \in DOMAIN call : SumQnaFails(c)
  \/ \E c \in DOMAIN call : SumAttach(c)
  \/ \E c \in DOMAIN call : SumAttachFails(c)

Spec == Init /\ [][Next]_vars

SpecConcurrent == InitConcurrent /\ [][NextConcurrent]_vars

\* --------------------------------------------------------------- claims

\* The summarize_paper call that ended last was issued for a url whose last
\* write was a summarize storing a non-empty answer.
SecondSummarize ==
  reply.tool = "summarize_paper" /\ reply.prior # {}

\* C1 as stated: a summarize(u) that follows a completed summarize(u) which
\* stored the provider's non-empty answer s, no write to u in between, returns s
\* and does not call the provider.
C1_SecondCallIsHit ==
  SecondSummarize =>
    /\ reply.outcome = "ok"
    /\ reply.ret = <<CHOOSE s \in reply.prior : TRUE>>
    /\ reply.qna = 0

\* C1 amended: the same, for a second call whose read of the store succeeds.
C1_SecondCallIsHitWhenRead ==
  SecondSummarize /\ ~reply.read_failed =>
    /\ reply.outcome = "ok"
    /\ reply.ret = <<CHOOSE s \in reply.prior : TRUE>>
    /\ reply.qna = 0

C1_Witness ==
  /\ SecondSummarize
  /\ ~reply.read_failed
  /\ reply.outcome = "ok"
  /\ reply.qna = 0

\* C2 as stated: no step takes a paper's non-empty summary away.
C2_SummaryNeverLost ==
  [][\A u \in DOMAIN papers :
       Truthy(papers[u].summary) =>
         u \in DOMAIN papers' /\ Truthy(papers'[u].summary)]_vars

\* get_paper(url) gives one item, with this title and this summary.
Gets(P, url, title, summary) ==
  /\ get_paper(P, url) # {}
  /\ \A item \in get_paper(P, url) : item.title = title /\ item.summary = summary

\* The step is a turn of the loop of search_arxiv whose save_paper succeeded.
LoopSaves(c) ==
  call[c].pc = "save_paper" /\ call'[c].i = call[c].i + 1

\* The step is a summarize_paper that wrote its answer with save_paper.
AttachSaves(c) ==
  /\ call[c].pc = "attach"
  /\ call[c].cached_paper = {}
  /\ call'[c].pc = "idle"
  /\ reply'.outcome = "ok"

\* C3: after save_paper(t, u, s), get_paper(u) gives one item, with title t and
\* summary s, whatever was stored under u before.
C3_SaveThenGet ==
  [][\A c \in DOMAIN call :
       /\ LoopSaves(c) =>
            LET pd == paper_data(call[c].resp[call[c].i])
            IN Gets(papers', pd.url, pd.title, None)
       /\ AttachSaves(c) =>
            Gets(papers', call[c].paper_url, UnknownTitle, call[c].summary)]_vars

\* A save_paper without summary has replaced a paper that had a summary.
C3_Witness ==
  \E u \in DOMAIN papers :
    /\ lastWrite[u].erased
    /\ lastPut[u] = lastWrite[u].at
    /\ papers[u].summary = None
    /\ papers[u].title # UnknownTitle

\* C4 as stated: the write of summarize_paper(u) keeps the title of the paper
\* stored under u and sets its summary, creates the paper with the placeholder
\* title when none is stored, and changes no other paper.
C4_AttachKeepsTitle ==
  [][\A c \in DOMAIN call :
       (call[c].pc = "attach" /\ call'[c].pc = "idle" /\ reply'.outcome = "ok") =>
         LET u == call[c].paper_url
         IN /\ u \in DOMAIN papers'
            /\ papers'[u].summary = call[c].summary
            /\ papers'[u].title =
                 IF u \in DOMAIN papers THEN papers[u].title ELSE UnknownTitle
            /\ \A v \in DOMAIN papers \ {u} : papers'[v] = papers[v]
            /\ DOMAIN papers' = DOMAIN papers \cup {u}]_vars

\* The pairs search_arxiv means to return for the provider's answer.
Intended(resp) == [k \in 1..Len(resp) |-> paper_data(resp[k])]

\* C5 as stated: a search_arxiv one of whose paper writes failed has still
\* written its search record, holding every pair of the provider's answer.
C5_SearchRecordedDespiteFailure ==
  reply.paper_failed =>
    /\ reply.wrote_search
    /\ \E id \in DOMAIN searches :
         /\ searches[id].query = reply.query
         /\ searches[id].results = Intended(reply.resp)

\* C5 amended: the failure of a paper write ends search_arxiv with that error;
\* the call does not go on to the next pair and writes no search record.
C5_FailureEndsSearch ==
  /\ \A c \in DOMAIN call : ~call[c].paper_failed
  /\ reply.paper_failed =>
       /\ reply.tool = "search_arxiv"
       /\ reply.outcome = "error"
       /\ ~reply.wrote_search

C5_Witness ==
  /\ reply.paper_failed
  /\ Len(reply.resp) = 2
  /\ papers # <<>>
  /\ searches = <<>>

\* C6 as stated: get_search_history(1), its scan answering, right after a
\* search_arxiv(q, n) that returned k pairs, returns one entry, with query q
\* and result_count k.
C6_HistoryShowsLastSearch ==
  (/\ reply.tool = "get_search_history"
   /\ reply.limit = 1
   /\ ~reply.scan_failed
   /\ reply.after_search # {}) =>
    \A last \in reply.after_search :
      /\ Len(reply.ret) = 1
      /\ reply.ret[1].query = last.query
      /\ reply.ret[1].result_count = Len(last.results)

\* The urls of a sequence of records.
UrlsOf(seq) == {seq[k].url : k \in 1..Len(seq)}

\* get_saved_papers has answered right after a search_arxiv that returned.
ListedAfterSearch ==
  reply.tool = "get_saved_papers" /\ reply.after_search # {}

C8_SearchesWriteOnce ==
  [][\A id \in DOMAIN searches :
       id \in DOMAIN searches' /\ searches'[id] = searches[id]]_vars

\* C9 as stated: a paper's timestamp is the time of the last write to it, a
\* save_paper or the update of its summary.
C9_TimestampIsLastWrite ==
  \A u \in DOMAIN papers : papers[u].timestamp = isoformat(lastWrite[u].at)

\* C9 amended: a paper's timestamp is the time of the last save_paper of it;
\* the update of the summary leaves it as it was.
C9_TimestampIsLastPut ==
  \A u \in DOMAIN papers : papers[u].timestamp = isoformat(lastPut[u])

C9_Witness ==
  \E u \in DOMAIN papers :
    /\ lastWrite[u].at > lastPut[u]
    /\ papers[u].timestamp = isoformat(lastPut[u])

\* Two summarize_paper calls for one url both saw a miss, and the one that
\* ended last has written; no call for that url is still under way.
BothSummarized ==
  /\ reply.tool = "summarize_paper"
  /\ reply.race # "none"
  /\ reply.outcome = "ok"
  /\ \A d \in DOMAIN call : call[d].paper_url # reply.paper_url

\* C10: two concurrent summarize_paper calls for one url can both miss and both
\* ask the provider; once both have ended, the stored summary is the one the
\* last write carried.
C10_LastWriteWins ==
  BothSummarized =>
    /\ reply.paper_url \in DOMAIN papers
    /\ papers[reply.paper_url].summary = lastWrite[reply.paper_url].value

\* Both calls asked the provider, and the answer stored is the last one written.
C10_Witness ==
  /\ BothSummarized
  /\ reply.race = "other_wrote"
  /\ reply.qna = 1
  /\ \A c \in DOMAIN call : budget[c] = 0 /\ call[c].pc = "idle"
  /\ papers[reply.paper_url].summary = reply.summary
  /\ ~reply.read_failed
  /\ papers[reply.paper_url].title # UnknownTitle

\* get_search_history has answered from a page its scan returned.
HistoryListed ==
  reply.tool = "get_search_history" /\ ~reply.scan_failed

\* The entry get_search_history shows for a stored search record.
Entry(item) ==
  [search_id |-> item.search_id, query |-> item.query,
   timestamp |-> item.timestamp, result_count |-> Len(item.results)]

\* The one-to-one pairings of the positions 1..n.
Pairings(n) ==
  {f \in [1..n -> 1..n] : \A i, j \in 1..n : f[i] = f[j] => i = j}

\* C11: get_search_history(limit) returns the entries of the page its scan
\* returned, a page of at most limit stored records: one entry per record of the
\* page, none added and none dropped, result_count being the number of results
\* stored, in order of timestamp, newest first.
C11_HistoryIsSortedPage ==
  HistoryListed =>
    LET page == reply.page
        ret == reply.ret
    IN /\ Len(page) <= reply.limit
       /\ \A k \in 1..Len(page) :
            /\ page[k].search_id \in DOMAIN searches
            /\ searches[page[k].search_id] = page[k]
       /\ Len(ret) = Len(page)
       /\ \E f \in Pairings(Len(page)) :
            \A k \in 1..Len(page) : ret[k] = Entry(page[f[k]])
       /\ \A i, j \in 1..Len(ret) :
            i < j => ~StrLess(ret[i].timestamp, ret[j].timestamp)

\* The scan gave two records oldest first, and the tool shows them newest first.
C11_Witness ==
  /\ HistoryListed
  /\ Len(reply.page) = 2
  /\ StrLess(reply.page[1].timestamp, reply.page[2].timestamp)
  /\ reply.ret[1] = Entry(reply.page[2])
  /\ reply.ret[2] = Entry(reply.page[1])

\* The step is a whole call of one of the two listing tools.
ListingStep ==
  /\ budget' # budget
  /\ call' = call
  /\ reply'.tool \in {"get_search_history", "get_saved_papers"}

\* C12: when the scan raises, get_search_history and get_saved_papers return an
\* empty list, not an error, and leave both tables as they were.
C12_ScanFailureGivesEmpty ==
  [][(ListingStep /\ reply'.scan_failed) =>
       /\ reply'.outcome = "ok"
       /\ reply'.ret = <<>>
       /\ papers' = papers
       /\ searches' = searches]_vars

\* The scan of a table that holds papers failed, for a limit scan accepts.
C12_Witness ==
  /\ reply.tool = "get_saved_papers"
  /\ reply.scan_failed
  /\ reply.limit >= 1
  /\ reply.outcome = "ok"
  /\ reply.ret = <<>>
  /\ papers # <<>>
  /\ searches # <<>>

\* C13: when the read of the store raises, get_paper returns None, not an
\* error, and summarize_paper goes on as after a miss with no item: it asks the
\* provider, once, and writes the answer with save_paper.
C13_FailedReadIsMiss ==
  [][/\ \A c \in DOMAIN call :
          /\ call'[c].read_failed =>
               call'[c].cached_paper = {} /\ call'[c].pc \in {"qna", "attach"}
          /\ (call[c].read_failed /\ call[c].pc = "attach" /\ call'[c].pc = "idle"
                /\ reply'.outcome = "ok") =>
               Gets(papers', call[c].paper_url, UnknownTitle, call[c].summary)
     /\ reply'.read_failed =>
          /\ reply'.qna = 1
          /\ reply'.outcome = "ok" => reply'.ret = <<reply'.summary>>]_vars

\* The store held a summary for the url, the read failed, the provider was
\* asked and its answer returned.
C13_Witness ==
  /\ reply.tool = "summarize_paper"
  /\ reply.read_failed
  /\ reply.start = "summary"
  /\ reply.outcome = "ok"
  /\ reply.qna = 1
  /\ reply.ret = <<reply.summary>>

\* C14: get_saved_papers(limit) returns at most limit entries, whatever the
\* table holds.
C14_AtMostLimitPapers ==
  reply.tool = "get_saved_papers" => Len(reply.ret) <= reply.limit

\* The table holds more papers than the limit, and limit entries came back.
C14_Witness ==
  /\ reply.tool = "get_saved_papers"
  /\ ~reply.scan_failed
  /\ \A c \in DOMAIN call : call[c].pc = "idle"
  /\ Cardinality(DOMAIN papers) > reply.limit
  /\ Len(reply.ret) = reply.limit

\* C15: get_paper(u) returns None for every url u that no search_arxiv and no
\* summarize_paper has saved: a paper is stored only under a url some call
\* wrote, so under none that no search returned and no summarize was given.
C15_OnlySavedUrlsStored ==
  \A u \in Urls : lastWrite[u].at < 0 => get_paper(papers, u) = {}

\* A search and a summarize have written, and a url neither saved reads as None.
C15_Witness ==
  /\ reply.tool = "summarize_paper"
  /\ reply.outcome = "ok"
  /\ searches # <<>>
  /\ reply.paper_url \in DOMAIN papers
  /\ \E u \in Urls : lastWrite[u].at < 0 /\ get_paper(papers, u) = {}

\* C16 as stated: whatever runs beside it and whatever its read of the store
\* did, the write of summarize_paper never turns the title of a stored paper
\* into "Unknown Title".
C16_SummarizeKeepsTitle ==
  [][\A c \in DOMAIN call :
       (call[c].tool = "summarize_paper" /\ call[c].pc = "attach"
          /\ call'[c].pc = "idle") =>
         \A u \in DOMAIN papers :
           papers[u].title # UnknownTitle => papers'[u].title # UnknownTitle]_vars

\* What the table can hold for a url whose summarize_paper must ask the
\* provider: no item, an item without summary, an item with an empty summary.
MissStarts == {"no record", "no summary", "empty summary"}

\* C17: a summarize_paper(u) that starts when the table holds no item for u, or
\* an item whose summary is None or empty, asks the provider exactly once, and,
\* when it returns, has stored the provider's answer as the summary of u and
\* returns that answer; an empty stored summary is no hit.
C17_MissAsksProviderOnce ==
  [][/\ \A c \in DOMAIN call :
          /\ call'[c].start \in MissStarts =>
               call'[c].pc \in {"qna", "attach"} /\ call'[c].qna <= 1
          /\ (call[c].start \in MissStarts /\ call[c].pc = "attach"
                /\ call'[c].pc = "idle" /\ reply'.outcome = "ok") =>
               /\ call[c].paper_url \in DOMAIN papers'
               /\ papers'[call[c].paper_url].summary = call[c].summary
               /\ reply'.ret = <<call[c].summary>>
     /\ (reply'.tool = "summarize_paper" /\ reply'.start \in MissStarts) =>
          /\ reply'.qna = 1
          /\ reply'.outcome = "ok" =>
               reply'.summary \in Summaries /\ reply'.ret = <<reply'.summary>>]_vars

\* The table held an empty summary for the url; the provider was asked and its
\* answer is stored and returned.
C17_Witness ==
  /\ reply.tool = "summarize_paper"
  /\ reply.start = "empty summary"
  /\ ~reply.read_failed
  /\ reply.outcome = "ok"
  /\ reply.qna = 1
  /\ reply.ret = <<reply.summary>>
  /\ papers[reply.paper_url].summary = reply.summary

\* C18: in summarize_paper(u); search_arxiv whose results hold u;
\* summarize_paper(u), the save_paper of the search leaves u without summary,
\* so the second summarize_paper is a miss and asks the provider again.
C18_SearchResetsSummary ==
  [][/\ \A c \in DOMAIN call :
          /\ LoopSaves(c) =>
               papers'[paper_data(call[c].resp[call[c].i]).url].summary = None
          /\ call'[c].after_erase => call'[c].pc \in {"qna", "attach"}
     /\ reply'.after_erase => reply'.qna = 1]_vars

\* The second summarize_paper read the item the search left, without summary,
\* asked the provider and returned its answer.
C18_Witness ==
  /\ reply.tool = "summarize_paper"
  /\ reply.after_erase
  /\ reply.start = "no summary"
  /\ ~reply.read_failed
  /\ reply.outcome = "ok"
  /\ reply.qna = 1

\* C19: a provider call that raises ends its tool with that error, is not
\* tried again, and nothing is written: a search_arxiv whose tavily.search
\* raised leaves papers and searches as they were, a summarize_paper whose
\* tavily.qna_search raised leaves papers as it was.
C19_ProviderFailureWritesNothing ==
  [][/\ (budget' # budget /\ call' = call /\ reply'.tool = "search_arxiv") =>
          /\ reply'.outcome = "error"
          /\ papers' = papers
          /\ searches' = searches
     /\ \A c \in DOMAIN call :
          (call[c].pc = "qna" /\ call'[c].pc = "idle") =>
            /\ reply'.outcome = "error"
            /\ reply'.qna = 1
            /\ papers' = papers
            /\ searches' = searches]_vars

\* tavily.qna_search raised in a summarize_paper, the tables holding records.
C19_Witness ==
  /\ reply.tool = "summarize_paper"
  /\ reply.outcome = "error"
  /\ reply.summary = None
  /\ reply.qna = 1
  /\ papers # <<>>
  /\ searches # <<>>

\* C20: for every entry get_saved_papers returns, has_summary is true exactly
\* when a summarize_paper of that url reading the same table would find a cache
\* hit: both test the stored summary for present and non-empty.
C20_HasSummaryIsHitTest ==
  [][(ListingStep /\ reply'.tool = "get_saved_papers") =>
       \A k \in 1..Len(reply'.ret) :
         reply'.ret[k].has_summary
           = CacheHit(get_paper(papers, reply'.ret[k].url))]_vars

\* The listing shows a paper with a summary and one whose stored summary is
\* empty, the second without has_summary.
C20_Witness ==
  /\ reply.tool = "get_saved_papers"
  /\ \A c \in DOMAIN call : call[c].pc = "idle"
  /\ Len(reply.ret) = 2
  /\ \E j, k \in 1..2 :
       /\ reply.ret[j].has_summary
       /\ ~reply.ret[k].has_summary
       /\ papers[reply.ret[k].url].summary = ""

====
